---- MODULE Spec2Model ----
(***************************************************************************)
(* NVStrings substring operations (cpp/src/NVStrings_substr.cu):           *)
(* get, slice, slice_from, extract and extract_record.                     *)
(*                                                                         *)
(* Every operation is a host function that launches device kernels with    *)
(* one thread per element.  A host step is one action; a device thread is  *)
(* one action per element index, so the threads of a kernel interleave     *)
(* freely.  The host continues past a kernel only when all of its threads  *)
(* have run (stream order / cudaDeviceSynchronize).                        *)
(*                                                                         *)
(* custring_view, NVStringsImpl and dreprog are not part of the translated *)
(* file; they are modelled from their documented interface.                *)
(***************************************************************************)
EXTENDS Integers, Sequences, FiniteSets, TLC

\* ------------------------------------------------------------------ bounds
\* largest number of elements of a generated input array
MaxCount == 2
\* largest position argument (get pos, slice start/stop)
MaxPos == 3

\* ------------------------------------------------------- helper arithmetic
Min(a, b) == IF a < b THEN a ELSE b

RECURSIVE SumSeq(_)
SumSeq(s) == IF s = <<>> THEN 0 ELSE Head(s) + SumSeq(Tail(s))

\* an inclusive scan: every offset has the element's own size added
inclusive_scan(s) == [i \in 1..Len(s) |-> SumSeq(SubSeq(s, 1, i))]

\* the scan left out: the offsets stay as constructed, all zero
exclusive_scan_none(s) == [i \in 1..Len(s) |-> 0]

\* thrust::exclusive_scan over the size table
exclusive_scan(s) == [i \in 1..Len(s) |-> SumSeq(SubSeq(s, 1, i - 1))]

\* thrust::reduce over sizes[0..groups-1] of row idx (idx is 0-based)
RowSizes(lens, idx, groups) == SubSeq(lens, idx * groups + 1, idx * groups + groups)

\* (unsigned) conversion of an int.  TLC integers are 32-bit signed, so the
\* modulus is 2^30 instead of 2^32: every string of the model is far shorter
\* than either, and a wrapped value takes the same branches.
UIntModulus == 2^30
ToUnsigned(x) == IF x < 0 THEN x + UIntModulus ELSE x

\* ------------------------------------------------------------ custring_view
\* An element of a strings array: null, or a string of Unicode codepoints.
NullStr == [isnull |-> TRUE, chars |-> <<>>]
Str(cs) == [isnull |-> FALSE, chars |-> cs]

\* UTF-8 encoding of one codepoint (one- and two-byte forms)
Utf8(c) == IF c < 128 THEN <<c>> ELSE <<192 + (c \div 64), 128 + (c % 64)>>

RECURSIVE Bytes(_)
Bytes(cs) == IF cs = <<>> THEN <<>> ELSE Utf8(Head(cs)) \o Bytes(Tail(cs))

chars_count(d) == Len(d.chars)

\* codepoints selected by substr(pos, length, step): positions pos, pos+step,
\* ... below min(pos+length, chars_count); nothing when pos is past the end
SubstrChars(d, pos, length, step) ==
    LET n == chars_count(d)
        epos == Min(pos + length, n)
    IN IF pos >= n \/ epos <= pos THEN <<>>
       ELSE [k \in 1..((epos - pos + step - 1) \div step) |-> d.chars[pos + (k - 1) * step + 1]]

\* custring_view::substr_size: bytes needed for substr(pos, length, step)
substr_size(d, pos, length, step) == Len(Bytes(SubstrChars(d, pos, length, step)))

\* custring_view::substr: the bytes written at the given buffer position
substr(d, pos, length, step) == Bytes(SubstrChars(d, pos, length, step))

\* alignment boundary of the packed buffer
AlignBoundary == 8
ALIGN_SIZE(n) == ((n + AlignBoundary - 1) \div AlignBoundary) * AlignBoundary

\* --------------------------------------------------------- NVStrings object
\* A view: null, or (offset into the owning buffer, byte length).
NullView == [isnull |-> TRUE, ptr |-> 0, bytes |-> 0]
View(p, n) == [isnull |-> FALSE, ptr |-> p, bytes |-> n]

NoBuffer == [alloc |-> FALSE, data |-> <<>>]
Buffer(n) == [alloc |-> TRUE, data |-> [i \in 1..n |-> 0]]

\* new NVStrings(count): count null views and no buffer
NewNVStrings(n) == [count |-> n, views |-> [i \in 1..n |-> NullView], buffer |-> NoBuffer]
NoArray == [count |-> -1, views |-> <<>>, buffer |-> NoBuffer]

\* NVStringsImpl::createMemoryFor: a buffer of sum(lengths) bytes; no buffer
\* when the sum is zero or the allocation fails
createMemoryFor(lens, allocOk) ==
    IF SumSeq(lens) = 0 \/ ~allocOk THEN NoBuffer ELSE Buffer(SumSeq(lens))

\* bytes bs stored at offset off (0-based) of buffer b
WriteAt(b, off, bs) ==
    [b EXCEPT !.data = [i \in 1..Len(b.data) |->
        IF i > off /\ i <= off + Len(bs) THEN bs[i - off] ELSE b.data[i]]]

\* the bytes a non-null view of array a refers to
ViewBytes(a, i) == SubSeq(a.buffer.data, a.views[i].ptr + 1, a.views[i].ptr + a.views[i].bytes)

\* -------------------------------------------------------------- input data
\* strings of the generated inputs: "", "a", "e-acute 1" (three bytes), "a12"
StrPool == {<<>>, <<97>>, <<233, 49>>, <<97, 49, 50>>}
ElemPool == {NullStr} \cup {Str(cs) : cs \in StrPool}

\* "hello", "world", "abc123", "xyz"
Hello == <<104, 101, 108, 108, 111>>
World == <<119, 111, 114, 108, 100>>
Abc123 == <<97, 98, 99, 49, 50, 51>>
Xyz == <<120, 121, 122>>
ExampleSlice == <<Str(Hello), NullStr, Str(World)>>
ExampleExtract == <<Str(Abc123), Str(Xyz)>>

InputArrays ==
    UNION {[1..n -> ElemPool] : n \in 0..MaxCount} \cup {ExampleSlice, ExampleExtract}

\* ------------------------------------------------------------------- state
VARIABLES
    d_strings,   \* the strings of this NVStrings object (pImpl->getStringsPtr())
    op,          \* the operation called: "none" before the call
    pc,          \* host position: "idle", "size", "rows", "transform", "done"
    err,         \* exception thrown by the call: "none" or "invalid_argument"
    ret,         \* int returned by extract / extract_record (-2: nothing returned)
    start, stop, step,   \* arguments of slice
    starts, stops,       \* arguments of slice_from: [present, v]
    rtn,         \* the NVStrings returned by get / slice / slice_from
    results,     \* the caller's std::vector<NVStrings*> of extract / extract_record
    d_lengths,   \* size table
    d_offsets,   \* offset table
    sized,       \* indexes whose sizer thread has run in the current sizer kernel
    xformed,     \* indexes whose transform thread has run in the current kernel
    stats,       \* what the call has done so far (allocations, threads run)
    pattern,     \* argument of extract / extract_record: [isnull, id]
    prog,        \* the compiled dreprog: [state, insts, groups, id]
    col,         \* extract: the column (capture group) being built
    row,         \* extract_record: the row the host loop is at
    d_begins, d_ends,    \* extract: match positions kept by the sizer
    d_rows,      \* extract_record: per element, index in results of its row (0: nullptr)
    d_buffers,   \* extract_record: per element, index in results of the row owning
                 \* its buffer (0: nullptr)
    fault,       \* a device thread has written through a null pointer
    results0     \* the caller's list as it was passed to extract / extract_record

\* the variables only extract and extract_record use
xvars == <<pattern, prog, col, row, d_begins, d_ends, d_rows, d_buffers, fault, results0>>

vars == <<d_strings, op, pc, err, ret, start, stop, step, starts, stops, rtn, results,
          d_lengths, d_offsets, sized, xformed, stats, xvars>>

count == Len(d_strings)
Indexes == 0..(count - 1)

Absent == [present |-> FALSE, v |-> <<>>]
Present(s) == [present |-> TRUE, v |-> s]

NoStats == [tables |-> 0, sizeTables |-> 0, offsetTables |-> 0, buffers |-> 0, arrays |-> 0,
            sizerThreads |-> 0, xformThreads |-> 0, destroys |-> 0]

NoPattern == [isnull |-> TRUE, id |-> ""]
NoProg == [state |-> "none", insts |-> 0, groups |-> 0, id |-> "", relists |-> "none"]

Init ==
    /\ d_strings \in InputArrays
    /\ op = "none"
    /\ pc = "idle"
    /\ err = "none"
    /\ ret = -2
    /\ start = 0 /\ stop = 0 /\ step = 1
    /\ starts = Absent /\ stops = Absent
    /\ rtn = NoArray
    /\ results = <<>>
    /\ d_lengths = <<>>
    /\ d_offsets = <<>>
    /\ sized = {}
    /\ xformed = {}
    /\ stats = NoStats
    /\ pattern = NoPattern
    /\ prog = NoProg
    /\ col = 0
    /\ row = 0
    /\ d_begins = <<>> /\ d_ends = <<>>
    /\ d_rows = <<>> /\ d_buffers = <<>>
    /\ fault = FALSE
    /\ results0 = <<>>

\* ------------------------------------------------------------ get and slice
\* the argument check with the comparison off by one
SliceArgsInvalidLate(a, b) == (b > 0) /\ (a > b + 1)

\* the argument check with >= for >
SliceArgsInvalidStrict(a, b) == (b > 0) /\ (a >= b)

\* the argument check of slice
SliceArgsInvalid(a, b) == (b > 0) /\ (a > b)

\* the length with one codepoint too many
SliceLenOneMore(d, a, b) == (IF b <= 0 THEN chars_count(d) ELSE b) - a + 1

\* int len = ( stop <= 0 ? dstr->chars_count() : stop ) - start;
SliceLen(d, a, b) == (IF b <= 0 THEN chars_count(d) ELSE b) - a

\* the sizer lambda sizing one codepoint less than the transform stores
slice_size_fn_short(lens, d, idx, a, b, c) ==
    IF d.isnull THEN lens
    ELSE [lens EXCEPT ![idx + 1] =
            ALIGN_SIZE(substr_size(d, ToUnsigned(a), ToUnsigned(SliceLen(d, a, b) - 1),
                                   ToUnsigned(c)))]

\* the sizer lambda of slice: the size table after thread idx has run
slice_size_fn(lens, d, idx, a, b, c) ==
    IF d.isnull THEN lens
    ELSE [lens EXCEPT ![idx + 1] =
            ALIGN_SIZE(substr_size(d, ToUnsigned(a), ToUnsigned(SliceLen(d, a, b)), ToUnsigned(c)))]

\* the transform lambda without its null test: a null element is sliced as ""
slice_fn_nulls(arr, offs, d, idx, a, b, c) ==
    LET bs == IF d.isnull THEN <<>>
              ELSE substr(d, ToUnsigned(a),
                          ToUnsigned((IF b <= 0 THEN chars_count(d) ELSE b) - a), ToUnsigned(c))
    IN [arr EXCEPT !.buffer = WriteAt(arr.buffer, offs[idx + 1], bs),
                   !.views[idx + 1] = View(offs[idx + 1], Len(bs))]

\* the transform lambda of slice: the output array after thread idx has run
slice_fn(arr, offs, d, idx, a, b, c) ==
    IF d.isnull THEN arr
    ELSE LET bs == substr(d, ToUnsigned(a), ToUnsigned(SliceLen(d, a, b)), ToUnsigned(c))
         IN [arr EXCEPT !.buffer = WriteAt(arr.buffer, offs[idx + 1], bs),
                        !.views[idx + 1] = View(offs[idx + 1], Len(bs))]

\* NVStrings::slice up to the launch of the sizer kernel
SliceEnter(o, a, b, c) ==
    /\ pc = "idle"
    /\ op' = o
    /\ start' = a /\ stop' = b /\ step' = c
    /\ IF SliceArgsInvalid(a, b)
       THEN /\ pc' = "done"
            /\ err' = "invalid_argument"
            /\ UNCHANGED <<d_lengths, stats>>
       ELSE /\ pc' = "size"
            /\ d_lengths' = [i \in 1..count |-> 0]
            /\ stats' = [stats EXCEPT !.tables = @ + 1, !.sizeTables = @ + 1]
            /\ UNCHANGED err
    /\ sized' = {}
    /\ UNCHANGED <<xvars, d_strings, ret, starts, stops, rtn, results, d_offsets, xformed>>

\* get with stop = pos
GetToPos(pos) == SliceEnter("get", pos, pos, 1)

\* NVStrings::get(pos)
Get(pos) == SliceEnter("get", pos, pos + 1, 1)

\* NVStrings::slice(start, stop, step)
Slice(a, b, c) == SliceEnter("slice", a, b, c)

\* one thread of the sizer kernel of slice
SliceSizer(idx) ==
    /\ pc = "size" /\ op \in {"get", "slice"}
    /\ idx \in Indexes \ sized
    /\ d_lengths' = slice_size_fn(d_lengths, d_strings[idx + 1], idx, start, stop, step)
    /\ sized' = sized \cup {idx}
    /\ stats' = [stats EXCEPT !.sizerThreads = @ + 1]
    /\ UNCHANGED <<xvars, d_strings, op, pc, err, ret, start, stop, step, starts, stops, rtn,
                   results, d_offsets, xformed>>

\* the result of createMemoryFor left unchecked
BufferNeverMissing(buf) == FALSE

\* if( d_buffer==0 ): the output object got no buffer
BufferMissing(buf) == ~buf.alloc

\* the offsets built ahead of the test of the buffer
CreateOutputScanFirst(allocOk) ==
    LET buf == createMemoryFor(d_lengths, allocOk)
    IN /\ rtn' = [NewNVStrings(count) EXCEPT !.buffer = buf]
       /\ d_offsets' = exclusive_scan(d_lengths)
       /\ pc' = IF BufferMissing(buf) THEN "done" ELSE "transform"
       /\ stats' = [stats EXCEPT !.arrays = @ + 1, !.tables = @ + 1, !.offsetTables = @ + 1,
                                 !.buffers = @ + (IF BufferMissing(buf) THEN 0 ELSE 1)]
       /\ xformed' = {}
       /\ UNCHANGED <<xvars, d_strings, op, err, ret, start, stop, step, starts, stops, results,
                      d_lengths, sized>>

\* host: create the output object, its buffer and the offsets (shared text of
\* slice and slice_from)
CreateOutput(allocOk) ==
    LET buf == createMemoryFor(d_lengths, allocOk)
    IN /\ rtn' = [NewNVStrings(count) EXCEPT !.buffer = buf]
       /\ IF BufferMissing(buf)
          THEN /\ pc' = "done"
               /\ stats' = [stats EXCEPT !.arrays = @ + 1]
               /\ UNCHANGED d_offsets
          ELSE /\ pc' = "transform"
               /\ d_offsets' = exclusive_scan(d_lengths)
               /\ stats' = [stats EXCEPT !.arrays = @ + 1, !.buffers = @ + 1, !.tables = @ + 1,
                                         !.offsetTables = @ + 1]
       /\ xformed' = {}
       /\ UNCHANGED <<xvars, d_strings, op, err, ret, start, stop, step, starts, stops, results,
                      d_lengths, sized>>

\* the output created without waiting for the sizer kernel
SliceCreateEarly(allocOk) ==
    /\ pc = "size" /\ op \in {"get", "slice"}
    /\ CreateOutput(allocOk)

\* host: the sizer kernel has finished (createMemoryFor reads the size table)
SliceCreate(allocOk) ==
    /\ pc = "size" /\ op \in {"get", "slice"}
    /\ sized = Indexes
    /\ CreateOutput(allocOk)

\* one thread of the transform kernel of slice
SliceTransform(idx) ==
    /\ pc = "transform" /\ op \in {"get", "slice"}
    /\ idx \in Indexes \ xformed
    /\ rtn' = slice_fn(rtn, d_offsets, d_strings[idx + 1], idx, start, stop, step)
    /\ xformed' = xformed \cup {idx}
    /\ stats' = [stats EXCEPT !.xformThreads = @ + 1]
    /\ UNCHANGED <<xvars, d_strings, op, pc, err, ret, start, stop, step, starts, stops, results,
                   d_lengths, d_offsets, sized>>

\* host: return rtn once the transform kernel has finished
ReturnOutput ==
    /\ pc = "transform" /\ op \in {"get", "slice", "slice_from"}
    /\ xformed = Indexes
    /\ pc' = "done"
    /\ UNCHANGED <<xvars, d_strings, op, err, ret, start, stop, step, starts, stops, rtn, results,
                   d_lengths, d_offsets, sized, xformed, stats>>

\* ---------------------------------------------------------------- slice_from
\* values of the starts / stops arrays of the generated calls
StartVals == {0, 2}
StopVals == {0, 1}

SliceFromStart(idx) == IF starts.present THEN starts.v[idx + 1] ELSE 0
SliceFromStop(idx) == IF stops.present THEN stops.v[idx + 1] ELSE -1

\* the sizer lambda of slice_from
slice_from_size_fn(lens, d, idx) ==
    IF d.isnull THEN lens
    ELSE LET a == SliceFromStart(idx)
             b == SliceFromStop(idx)
         IN [lens EXCEPT ![idx + 1] =
               ALIGN_SIZE(substr_size(d, ToUnsigned(a), ToUnsigned(SliceLen(d, a, b)), 1))]

\* the transform lambda of slice_from
slice_from_fn(arr, offs, d, idx) ==
    IF d.isnull THEN arr
    ELSE LET a == SliceFromStart(idx)
             b == SliceFromStop(idx)
             bs == substr(d, ToUnsigned(a), ToUnsigned(SliceLen(d, a, b)), 1)
         IN [arr EXCEPT !.buffer = WriteAt(arr.buffer, offs[idx + 1], bs),
                        !.views[idx + 1] = View(offs[idx + 1], Len(bs))]

\* NVStrings::slice_from up to the launch of the sizer kernel
SliceFrom(sa, so) ==
    /\ pc = "idle"
    /\ op' = "slice_from"
    /\ starts' = sa /\ stops' = so
    /\ pc' = "size"
    /\ d_lengths' = [i \in 1..count |-> 0]
    /\ stats' = [stats EXCEPT !.tables = @ + 1, !.sizeTables = @ + 1]
    /\ sized' = {}
    /\ UNCHANGED <<xvars, d_strings, err, ret, start, stop, step, rtn, results, d_offsets, xformed>>

SliceFromSizer(idx) ==
    /\ pc = "size" /\ op = "slice_from"
    /\ idx \in Indexes \ sized
    /\ d_lengths' = slice_from_size_fn(d_lengths, d_strings[idx + 1], idx)
    /\ sized' = sized \cup {idx}
    /\ stats' = [stats EXCEPT !.sizerThreads = @ + 1]
    /\ UNCHANGED <<xvars, d_strings, op, pc, err, ret, start, stop, step, starts, stops, rtn,
                   results, d_offsets, xformed>>

SliceFromCreate(allocOk) ==
    /\ pc = "size" /\ op = "slice_from"
    /\ sized = Indexes
    /\ CreateOutput(allocOk)

SliceFromTransform(idx) ==
    /\ pc = "transform" /\ op = "slice_from"
    /\ idx \in Indexes \ xformed
    /\ rtn' = slice_from_fn(rtn, d_offsets, d_strings[idx + 1], idx)
    /\ xformed' = xformed \cup {idx}
    /\ stats' = [stats EXCEPT !.xformThreads = @ + 1]
    /\ UNCHANGED <<xvars, d_strings, op, pc, err, ret, start, stop, step, starts, stops, results,
                   d_lengths, d_offsets, sized>>

\* ------------------------------------------------------------------ dreprog
\* The regex engine.  The generated calls use five patterns:
\*   "d+"       \d+         no capture group
\*   "(d+)"     (\d+)       one group
\*   "(d)(d*)"  (\d)(\d*)   two groups, the second may match the empty span
\*   "(a)?(d)"  (a)?(\d)    two groups, the first may take no part in the match
\*   "(a)(d)?"  (a)(\d)?    two groups, the second may take no part in the match
PatternIds == {"d+", "(d+)", "(d)(d*)", "(a)?(d)", "(a)(d)?"}

\* dreprog::group_counts
group_counts(id) == IF id = "d+" THEN 0 ELSE IF id = "(d+)" THEN 1 ELSE 2

\* largest instruction count served by the fixed working-memory classes
MAX_STACK_INSTS == 1000

IsDigit(c) == c \in 48..57

\* end (exclusive, 0-based) of the run of digits that starts at position b
DigitRunEnd(cs, b) ==
    CHOOSE e \in (b + 1)..Len(cs) :
        /\ \A k \in (b + 1)..e : IsDigit(cs[k])
        /\ (e = Len(cs) \/ ~IsDigit(cs[e + 1]))

\* the patterns match at position i (0-based) of cs
MatchesAt(id, cs, i) ==
    IF id = "(a)?(d)"
    THEN \/ IsDigit(cs[i + 1])
         \/ (cs[i + 1] = 97 /\ i + 2 <= Len(cs) /\ IsDigit(cs[i + 2]))
    ELSE IF id = "(a)(d)?" THEN cs[i + 1] = 97
    ELSE IsDigit(cs[i + 1])

MatchEnd(id, cs, i) ==
    IF id = "(a)?(d)"
    THEN (IF cs[i + 1] = 97 THEN i + 2 ELSE i + 1)
    ELSE IF id = "(a)(d)?"
    THEN (IF i + 2 <= Len(cs) /\ IsDigit(cs[i + 2]) THEN i + 2 ELSE i + 1)
    ELSE DigitRunEnd(cs, i)

NoMatch == [result |-> 0, begin |-> 0, end |-> 0]

\* dreprog::find: the leftmost match in the whole string; result > 0 when found
find(id, d) ==
    LET cs == d.chars
        hits == {i \in 0..(Len(cs) - 1) : MatchesAt(id, cs, i)}
    IN IF hits = {} THEN [NoMatch EXCEPT !.end = Len(cs)]
       ELSE LET b == CHOOSE i \in hits : \A j \in hits : i <= j
            IN [result |-> 1, begin |-> b, end |-> MatchEnd(id, cs, b)]

\* dreprog::extract: the span of group c inside the match [begin, end);
\* result <= 0 when the group took no part in the match
extract(id, d, begin, end, c) ==
    IF id = "(d+)" /\ c = 0 THEN [result |-> 1, begin |-> begin, end |-> end]
    ELSE IF id = "(d)(d*)" /\ c = 0 THEN [result |-> 1, begin |-> begin, end |-> begin + 1]
    ELSE IF id = "(d)(d*)" /\ c = 1 THEN [result |-> 1, begin |-> begin + 1, end |-> end]
    ELSE IF id = "(a)?(d)" /\ c = 0
         THEN (IF d.chars[begin + 1] = 97 THEN [result |-> 1, begin |-> begin, end |-> begin + 1]
               ELSE [result |-> 0, begin |-> begin, end |-> end])
    ELSE IF id = "(a)?(d)" /\ c = 1 THEN [result |-> 1, begin |-> end - 1, end |-> end]
    ELSE IF id = "(a)(d)?" /\ c = 0 THEN [result |-> 1, begin |-> begin, end |-> begin + 1]
    ELSE IF id = "(a)(d)?" /\ c = 1
         THEN (IF end - begin = 2 THEN [result |-> 1, begin |-> begin + 1, end |-> end]
               ELSE [result |-> 0, begin |-> begin, end |-> end])
    ELSE [result |-> 0, begin |-> begin, end |-> end]

\* instruction counts of the generated programs
InstCounts == {10, 100, 1000, 1001}

\* a list the caller passes to extract / extract_record: empty, or holding an
\* array of an earlier call
EarlierArray == NewNVStrings(1)
ResultLists == {<<>>, <<EarlierArray>>}

\* ------------------------------------------------- extract and extract_record
\* the result of alloc_relists left unchecked
RelistsNeverFailed(insts, relistsOk) == FALSE

\* the working-memory request: made when the program has more instructions
\* than the fixed classes serve, and it can fail
RelistsFailed(insts, relistsOk) == insts > MAX_STACK_INSTS /\ ~relistsOk

\* the throw without the destroy
RelistsFailLeak(p) == [prog |-> p, destroys |-> 0, err |-> "invalid_argument"]

\* the exit taken when the working-memory request fails: destroy and throw
RelistsFailExit(p) ==
    [prog |-> [p EXCEPT !.state = "destroyed"], destroys |-> 1, err |-> "invalid_argument"]

\* the zero-group exit that forgets to destroy the program
ZeroGroupsLeak(p) == [prog |-> p, destroys |-> 0, ret |-> 0]

\* the exit taken when the pattern has no capture group: destroy and return 0
ZeroGroupsExit(p) == [prog |-> [p EXCEPT !.state = "destroyed"], destroys |-> 1, ret |-> 0]

\* Both functions up to the launch of the first sizer kernel: the null-pattern
\* and empty-array returns, compilation, the working-memory request and the
\* zero-group return.  recordShape: the size table has count*groups entries.
RegexEnter(o, pat, insts, relistsOk, res0) ==
    LET groups == group_counts(pat.id)
        compiled == [state |-> "live", insts |-> insts, groups |-> groups, id |-> pat.id,
                     relists |-> IF insts <= MAX_STACK_INSTS THEN "none"
                                 ELSE IF relistsOk THEN "ok" ELSE "failed"]
    IN
    /\ pc = "idle"
    /\ op' = o
    /\ pattern' = pat
    /\ results' = res0
    /\ results0' = res0
    /\ sized' = {}
    /\ IF pat.isnull
       THEN /\ ret' = -1 /\ pc' = "done"
            /\ UNCHANGED <<err, prog, stats, d_lengths, d_begins, d_ends>>
       ELSE IF count = 0
       THEN /\ ret' = 0 /\ pc' = "done"
            /\ UNCHANGED <<err, prog, stats, d_lengths, d_begins, d_ends>>
       ELSE IF RelistsFailed(insts, relistsOk)
       THEN /\ prog' = RelistsFailExit(compiled).prog
            /\ stats' = [stats EXCEPT !.destroys = @ + RelistsFailExit(compiled).destroys]
            /\ err' = RelistsFailExit(compiled).err /\ pc' = "done"
            /\ UNCHANGED <<ret, d_lengths, d_begins, d_ends>>
       ELSE IF groups = 0
       THEN /\ prog' = ZeroGroupsExit(compiled).prog
            /\ stats' = [stats EXCEPT !.destroys = @ + ZeroGroupsExit(compiled).destroys]
            /\ ret' = ZeroGroupsExit(compiled).ret /\ pc' = "done"
            /\ UNCHANGED <<err, d_lengths, d_begins, d_ends>>
       ELSE /\ prog' = compiled
            /\ pc' = "size"
            /\ IF o = "extract_record"
               THEN /\ d_lengths' = [i \in 1..(count * groups) |-> 0]
                    /\ stats' = [stats EXCEPT !.tables = @ + 1, !.sizeTables = @ + 1]
                    /\ UNCHANGED <<d_begins, d_ends>>
               ELSE /\ d_lengths' = [i \in 1..count |-> 0]
                    /\ d_begins' = [i \in 1..count |-> 0]
                    /\ d_ends' = [i \in 1..count |-> 0]
                    /\ stats' = [stats EXCEPT !.tables = @ + 3, !.sizeTables = @ + 1]
            /\ UNCHANGED <<err, ret>>
    /\ UNCHANGED <<d_strings, start, stop, step, starts, stops, rtn, d_offsets, xformed,
                   col, row, d_rows, d_buffers, fault>>

\* NVStrings::extract(pattern, results)
Extract(pat, insts, relistsOk, res0) == RegexEnter("extract", pat, insts, relistsOk, res0)

\* extract_sizer_fn: (d_begins, d_ends, d_lengths) after thread idx has run
extract_sizer_fn(tabs, d, idx, id, c) ==
    LET cleared == [tabs EXCEPT !.begins[idx + 1] = -1, !.ends[idx + 1] = -1]
        f == find(id, d)
        x == IF f.result > 0 THEN extract(id, d, f.begin, f.end, c) ELSE f
    IN IF d.isnull THEN cleared
       ELSE IF x.result > 0
       THEN [cleared EXCEPT !.begins[idx + 1] = x.begin,
                            !.ends[idx + 1] = x.end,
                            !.lengths[idx + 1] =
                                ALIGN_SIZE(substr_size(d, x.begin, x.end - x.begin, 1))]
       ELSE cleared

\* one thread of the sizer kernel of extract, for column col
ExtractSizer(idx) ==
    /\ pc = "size" /\ op = "extract"
    /\ idx \in Indexes \ sized
    /\ LET t == extract_sizer_fn([begins |-> d_begins, ends |-> d_ends, lengths |-> d_lengths],
                                 d_strings[idx + 1], idx, prog.id, col)
       IN /\ d_begins' = t.begins
          /\ d_ends' = t.ends
          /\ d_lengths' = t.lengths
    /\ sized' = sized \cup {idx}
    /\ stats' = [stats EXCEPT !.sizerThreads = @ + 1]
    /\ UNCHANGED <<d_strings, op, pc, err, ret, start, stop, step, starts, stops, rtn,
                   results, d_offsets, xformed, pattern, prog, col, row, d_rows, d_buffers,
                   fault, results0>>

\* host, end of the column loop body: next column, or destroy and return
ExtractAdvance ==
    IF col + 1 < prog.groups
    THEN /\ col' = col + 1
         /\ pc' = "size"
         /\ sized' = {}
         /\ UNCHANGED <<prog, ret>>
    ELSE /\ prog' = [prog EXCEPT !.state = "destroyed"]
         /\ ret' = prog.groups
         /\ pc' = "done"
         /\ UNCHANGED <<col, sized>>

\* host: create the column and append it to the caller's list
ExtractColumn ==
    /\ pc = "size" /\ op = "extract"
    /\ sized = Indexes
    /\ results' = Append(results, NewNVStrings(count))
    /\ pc' = "column"
    /\ stats' = [stats EXCEPT !.arrays = @ + 1]
    /\ UNCHANGED <<xvars, d_strings, op, err, ret, start, stop, step, starts, stops, rtn,
                   d_lengths, d_offsets, sized, xformed>>

\* host: create the buffer of the appended column; without one go on with the
\* next column, else compute the offsets and launch the transform kernel
ExtractBuffer(allocOk) ==
    LET buf == createMemoryFor(d_lengths, allocOk)
        last == col + 1 >= prog.groups
    IN
    /\ pc = "column" /\ op = "extract"
    /\ results' = [results EXCEPT ![Len(results)].buffer = buf]
    /\ xformed' = {}
    /\ IF BufferMissing(buf)
       THEN /\ ExtractAdvance
            /\ stats' = [stats EXCEPT !.destroys = @ + (IF last THEN 1 ELSE 0)]
            /\ UNCHANGED d_offsets
       ELSE /\ pc' = "transform"
            /\ d_offsets' = exclusive_scan(d_lengths)
            /\ stats' = [stats EXCEPT !.buffers = @ + 1, !.tables = @ + 1,
                                      !.offsetTables = @ + 1]
            /\ UNCHANGED <<col, sized, prog, ret>>
    /\ UNCHANGED <<d_strings, op, err, start, stop, step, starts, stops, rtn, d_lengths,
                   pattern, row, d_begins, d_ends, d_rows, d_buffers, fault, results0>>

\* the transform lambda of extract without its stop > start test
extract_fn_unguarded(arr, offs, d, idx, begins, ends) ==
    IF d.isnull THEN arr
    ELSE LET bs == substr(d, ToUnsigned(begins[idx + 1]),
                          ToUnsigned(ends[idx + 1] - begins[idx + 1]), 1)
         IN [arr EXCEPT !.buffer = WriteAt(arr.buffer, offs[idx + 1], bs),
                        !.views[idx + 1] = View(offs[idx + 1], Len(bs))]

\* the transform lambda of extract: the column after thread idx has run
extract_fn(arr, offs, d, idx, begins, ends) ==
    LET a == begins[idx + 1]
        b == ends[idx + 1]
    IN IF d.isnull THEN arr
       ELSE IF b > a
       THEN LET bs == substr(d, ToUnsigned(a), ToUnsigned(b - a), 1)
            IN [arr EXCEPT !.buffer = WriteAt(arr.buffer, offs[idx + 1], bs),
                           !.views[idx + 1] = View(offs[idx + 1], Len(bs))]
       ELSE arr

\* one thread of the transform kernel of extract, for column col
ExtractTransform(idx) ==
    /\ pc = "transform" /\ op = "extract"
    /\ idx \in Indexes \ xformed
    /\ results' = [results EXCEPT ![Len(results)] =
                      extract_fn(@, d_offsets, d_strings[idx + 1], idx, d_begins, d_ends)]
    /\ xformed' = xformed \cup {idx}
    /\ stats' = [stats EXCEPT !.xformThreads = @ + 1]
    /\ UNCHANGED <<xvars, d_strings, op, pc, err, ret, start, stop, step, starts, stops, rtn,
                   d_lengths, d_offsets, sized>>

\* host: the transform kernel of column col has finished
ExtractNextColumn ==
    /\ pc = "transform" /\ op = "extract"
    /\ xformed = Indexes
    /\ ExtractAdvance
    /\ stats' = [stats EXCEPT !.destroys = @ + (IF col + 1 >= prog.groups THEN 1 ELSE 0)]
    /\ UNCHANGED <<d_strings, op, err, start, stop, step, starts, stops, rtn, results,
                   d_lengths, d_offsets, xformed, pattern, row, d_begins, d_ends, d_rows,
                   d_buffers, fault, results0>>

\* NVStrings::extract_record(pattern, results)
ExtractRecord(pat, insts, relistsOk, res0) ==
    RegexEnter("extract_record", pat, insts, relistsOk, res0)

\* the group loop of extrace_record_sizer_fn from group c on: the size table
RECURSIVE RecordSizes(_, _, _, _, _, _, _)
RecordSizes(lens, d, idx, id, groups, f, c) ==
    IF c >= groups THEN lens
    ELSE LET x == extract(id, d, f.begin, f.end, c)
         IN IF x.result <= 0 THEN RecordSizes(lens, d, idx, id, groups, f, c + 1)
            ELSE RecordSizes([lens EXCEPT ![idx * groups + c + 1] =
                                  ALIGN_SIZE(substr_size(d, x.begin, x.end, 1))],
                             d, idx, id, groups, f, c + 1)

\* extrace_record_sizer_fn: the size table after thread idx has run
extrace_record_sizer_fn(lens, d, idx, id, groups) ==
    IF d.isnull THEN lens
    ELSE IF find(id, d).result <= 0 THEN lens
    ELSE RecordSizes(lens, d, idx, id, groups, find(id, d), 0)

\* one thread of the sizer kernel of extract_record
RecordSizer(idx) ==
    /\ pc = "size" /\ op = "extract_record"
    /\ idx \in Indexes \ sized
    /\ d_lengths' = extrace_record_sizer_fn(d_lengths, d_strings[idx + 1], idx, prog.id,
                                            prog.groups)
    /\ sized' = sized \cup {idx}
    /\ stats' = [stats EXCEPT !.sizerThreads = @ + 1]
    /\ UNCHANGED <<xvars, d_strings, op, pc, err, ret, start, stop, step, starts, stops, rtn,
                   results, d_offsets, xformed>>

\* host: cudaDeviceSynchronize after the sizer kernel, then the strings and
\* buffers vectors of the row loop
RecordSync ==
    /\ pc = "size" /\ op = "extract_record"
    /\ sized = Indexes
    /\ pc' = "rows"
    /\ row' = 0
    /\ d_rows' = [i \in 1..count |-> 0]
    /\ d_buffers' = [i \in 1..count |-> 0]
    /\ stats' = [stats EXCEPT !.tables = @ + 2]
    /\ UNCHANGED <<d_strings, op, err, ret, start, stop, step, starts, stops, rtn, results,
                   d_lengths, d_offsets, sized, xformed, pattern, prog, col, d_begins,
                   d_ends, fault, results0>>

\* the row loop with the size test ahead of the push_back
NewRowUnlessEmpty(res, groups, size) ==
    IF size = 0 THEN res ELSE Append(res, NewNVStrings(groups))

\* the row put in front of the list
NewRowInFront(res, groups, size) == <<NewNVStrings(groups)>> \o res

\* new NVStrings(groups) and push_back: the row is appended whatever the sum
\* of its sizes, the size test comes after the push_back
NewRow(res, groups, size) == Append(res, NewNVStrings(groups))

\* host: the head of one iteration of the row loop, the row appended
RecordRow ==
    /\ pc = "rows" /\ op = "extract_record"
    /\ row < count
    /\ results' = NewRow(results, prog.groups, SumSeq(RowSizes(d_lengths, row, prog.groups)))
    /\ pc' = "row"
    /\ stats' = [stats EXCEPT !.arrays = @ + 1]
    /\ UNCHANGED <<xvars, d_strings, op, err, ret, start, stop, step, starts, stops, rtn,
                   d_lengths, d_offsets, sized, xformed>>

\* host: the rest of the iteration; a row whose sizes sum to zero gets no
\* buffer, else RMM_ALLOC (which leaves d_buffer null when it fails),
\* setMemoryBuffer, strings[idx] and buffers[idx].  After the last row the
\* transform kernel is launched.
RecordBuffer(allocOk) ==
    LET size == SumSeq(RowSizes(d_lengths, row, prog.groups))
        at == Len(results)
    IN
    /\ pc = "row" /\ op = "extract_record"
    /\ IF size = 0
       THEN UNCHANGED <<results, d_rows, d_buffers, stats>>
       ELSE /\ results' = IF allocOk THEN [results EXCEPT ![at].buffer = Buffer(size)]
                          ELSE results
            /\ d_rows' = [d_rows EXCEPT ![row + 1] = at]
            /\ d_buffers' = [d_buffers EXCEPT ![row + 1] = IF allocOk THEN at ELSE 0]
            /\ stats' = [stats EXCEPT !.buffers = @ + (IF allocOk THEN 1 ELSE 0)]
    /\ row' = row + 1
    /\ pc' = IF row + 1 = count THEN "transform" ELSE "rows"
    /\ xformed' = {}
    /\ UNCHANGED <<d_strings, op, err, ret, start, stop, step, starts, stops, rtn,
                   d_lengths, d_offsets, sized, pattern, prog, col, d_begins, d_ends, fault, results0>>

\* the group loop of extrace_record_fn from group c on, the running buffer
\* pointer at offset off: the row
RECURSIVE RecordCols(_, _, _, _, _, _, _, _, _)
RecordCols(arr, lens, d, idx, id, groups, f, c, off) ==
    IF c >= groups THEN arr
    ELSE LET x == extract(id, d, f.begin, f.end, c)
             bs == substr(d, ToUnsigned(x.begin), ToUnsigned(x.end - x.begin), 1)
         IN IF x.result <= 0 THEN RecordCols(arr, lens, d, idx, id, groups, f, c + 1, off)
            ELSE RecordCols([arr EXCEPT !.buffer = WriteAt(arr.buffer, off, bs),
                                        !.views[c + 1] = View(off, Len(bs))],
                            lens, d, idx, id, groups, f, c + 1,
                            off + lens[idx * groups + c + 1])

\* extrace_record_fn: the row of element idx after thread idx has run
extrace_record_fn(arr, lens, d, idx, id, groups) ==
    IF d.isnull THEN arr
    ELSE IF find(id, d).result <= 0 THEN arr
    ELSE RecordCols(arr, lens, d, idx, id, groups, find(id, d), 0, 0)

\* One thread of the transform kernel of extract_record.  A thread that has
\* something to store and finds d_rows[idx] or d_buffers[idx] null stores
\* through a null pointer: the store faults and records nothing.
RecordTransform(idx) ==
    LET d == d_strings[idx + 1]
        blank == NewNVStrings(prog.groups)
        writes == extrace_record_fn(blank, d_lengths, d, idx, prog.id, prog.groups) # blank
        nullptr == d_rows[idx + 1] = 0 \/ d_buffers[idx + 1] = 0
    IN
    /\ pc = "transform" /\ op = "extract_record"
    /\ idx \in Indexes \ xformed
    /\ IF writes /\ nullptr
       THEN /\ fault' = TRUE
            /\ UNCHANGED results
       ELSE /\ results' = IF writes
                          THEN [results EXCEPT ![d_rows[idx + 1]] =
                                  extrace_record_fn(@, d_lengths, d, idx, prog.id, prog.groups)]
                          ELSE results
            /\ UNCHANGED fault
    /\ xformed' = xformed \cup {idx}
    /\ stats' = [stats EXCEPT !.xformThreads = @ + 1]
    /\ UNCHANGED <<d_strings, op, pc, err, ret, start, stop, step, starts, stops, rtn,
                   d_lengths, d_offsets, sized, pattern, prog, col, row, d_begins, d_ends,
                   d_rows, d_buffers, results0>>

\* host: cudaDeviceSynchronize after the transform kernel (a faulted kernel
\* ends without running its remaining threads), destroy the program, return
RecordReturn ==
    /\ pc = "transform" /\ op = "extract_record"
    /\ xformed = Indexes \/ fault
    /\ prog' = [prog EXCEPT !.state = "destroyed"]
    /\ stats' = [stats EXCEPT !.destroys = @ + 1]
    /\ ret' = prog.groups
    /\ pc' = "done"
    /\ UNCHANGED <<d_strings, op, err, start, stop, step, starts, stops, rtn, results,
                   d_lengths, d_offsets, sized, xformed, pattern, col, row, d_begins, d_ends,
                   d_rows, d_buffers, fault, results0>>

\* arguments of the generated calls
PosArgs == -1..MaxPos
StepArgs == {1, 2}
OptArrays(vals) == {Absent} \cup {Present(s) : s \in [1..count -> vals]}
RegexArgs == {NoPattern} \cup {[isnull |-> FALSE, id |-> i] : i \in PatternIds}

Next ==
    \/ \E pos \in 0..MaxPos : Get(pos)
    \/ \E a \in PosArgs, b \in PosArgs, c \in StepArgs : Slice(a, b, c)
    \/ \E idx \in Indexes : SliceSizer(idx)
    \/ \E ok \in BOOLEAN : SliceCreate(ok)
    \/ \E idx \in Indexes : SliceTransform(idx)
    \/ ReturnOutput
    \/ \E sa \in OptArrays(StartVals), so \in OptArrays(StopVals) : SliceFrom(sa, so)
    \/ \E idx \in Indexes : SliceFromSizer(idx)
    \/ \E ok \in BOOLEAN : SliceFromCreate(ok)
    \/ \E idx \in Indexes : SliceFromTransform(idx)
    \/ \E pat \in RegexArgs, n \in InstCounts, ok \in BOOLEAN, r \in ResultLists :
          Extract(pat, n, ok, r)
    \/ \E idx \in Indexes : ExtractSizer(idx)
    \/ ExtractColumn
    \/ \E ok \in BOOLEAN : ExtractBuffer(ok)
    \/ \E idx \in Indexes : ExtractTransform(idx)
    \/ ExtractNextColumn
    \/ \E pat \in RegexArgs, n \in InstCounts, ok \in BOOLEAN, r \in ResultLists :
          ExtractRecord(pat, n, ok, r)
    \/ \E idx \in Indexes : RecordSizer(idx)
    \/ RecordSync
    \/ RecordRow
    \/ \E ok \in BOOLEAN : RecordBuffer(ok)
    \/ \E idx \in Indexes : RecordTransform(idx)
    \/ RecordReturn

Spec == Init /\ [][Next]_vars

\* ================================================================== claims
SliceFamily == {"get", "slice", "slice_from"}
RegexFamily == {"extract", "extract_record"}

\* the arrays the call has appended to the caller's list
Appended == SubSeq(results, Len(results0) + 1, Len(results))

AllNull(a) == \A i \in 1..Len(a.views) : a.views[i].isnull

\* the codepoints of cs at the positions of P, in increasing order
RECURSIVE Pick(_, _)
Pick(cs, P) ==
    IF P = {} THEN <<>>
    ELSE LET m == CHOOSE x \in P : \A y \in P : x <= y
         IN <<cs[m + 1]>> \o Pick(cs, P \ {m})

\* the codepoints of cs at positions a, a+c, a+2c, ... below the effective stop
SliceRef(cs, a, b, c) ==
    LET estop == IF b > 0 THEN b ELSE Len(cs)
    IN Pick(cs, {q \in 0..(Len(cs) - 1) : q >= a /\ q < estop /\ (q - a) % c = 0})

\* the element of d matched by the pattern, and the text of its group c
Matched(id, d) == ~d.isnull /\ find(id, d).result > 0
GroupText(id, d, c) ==
    LET f == find(id, d)
        x == extract(id, d, f.begin, f.end, c)
    IN Bytes([k \in 1..(x.end - x.begin) |-> d.chars[x.begin + k]])

\* ---- C1
\* C1: slice called with stop > 0 and start > stop fails with invalid-argument
\* before any device work: no sizer or transform thread has run, no size or
\* offset table and no buffer was allocated, no result array was created.
C1_InvalidSliceFailsFirst ==
    (op = "slice" /\ stop > 0 /\ start > stop) =>
        /\ pc = "done"
        /\ err = "invalid_argument"
        /\ stats = NoStats
        /\ rtn = NoArray
        /\ d_lengths = <<>> /\ d_offsets = <<>>
        /\ sized = {} /\ xformed = {}

C1_Witness == op = "slice" /\ stop > 0 /\ start > stop /\ pc = "done" /\ count > 0

\* ---- C2
\* C2: for stop <= 0 or start <= stop, slice returns an array with the input's
\* element count; a null input element is null in the output and its entry of
\* the size table is zero.
C2_SliceCountAndNulls ==
    (op = "slice" /\ (stop <= 0 \/ start <= stop)) =>
        /\ err = "none"
        /\ \A i \in 1..count : d_strings[i].isnull => d_lengths[i] = 0
        /\ (pc = "done" =>
              /\ rtn.count = count
              /\ Len(rtn.views) = count
              /\ \A i \in 1..count : d_strings[i].isnull => rtn.views[i].isnull)

C2_Witness ==
    /\ op = "slice" /\ pc = "done" /\ err = "none"
    /\ \E i, j \in 1..count : d_strings[i].isnull /\ rtn.views[i].isnull /\ ~rtn.views[j].isnull

\* ---- C3
\* C3 as stated: every non-null element of a valid slice comes out as exactly
\* the codepoints at positions start, start+step, ... below the effective stop.
C3_AsStated ==
    (op = "slice" /\ pc = "done" /\ err = "none") =>
        \A i \in 1..count : ~d_strings[i].isnull =>
            /\ ~rtn.views[i].isnull
            /\ ViewBytes(rtn, i) = Bytes(SliceRef(d_strings[i].chars, start, stop, step))

\* C3: when the output buffer of a valid slice is allocated, every non-null
\* element comes out as exactly the codepoints at positions
\* start, start+step, ... below the effective stop (stop if stop > 0, else the
\* codepoint count); ["hello", null, "world"] sliced (1,3,1) is ["el", null,
\* "or"], and slicing [0, chars_count) with step 1 reproduces the bytes.  When
\* no buffer is allocated every output element is null.
C3_SliceContents ==
    (op = "slice" /\ pc = "done" /\ err = "none") =>
        /\ rtn.buffer.alloc =>
              \A i \in 1..count : ~d_strings[i].isnull =>
                  /\ ~rtn.views[i].isnull
                  /\ ViewBytes(rtn, i) = Bytes(SliceRef(d_strings[i].chars, start, stop, step))
                  /\ (start = 0 /\ step = 1 /\ (stop <= 0 \/ stop >= chars_count(d_strings[i])))
                        => ViewBytes(rtn, i) = Bytes(d_strings[i].chars)
        /\ (rtn.buffer.alloc /\ d_strings = ExampleSlice /\ start = 1 /\ stop = 3 /\ step = 1) =>
              /\ ViewBytes(rtn, 1) = <<101, 108>>
              /\ rtn.views[2].isnull
              /\ ViewBytes(rtn, 3) = <<111, 114>>
        /\ ~rtn.buffer.alloc => AllNull(rtn)

C3_Witness ==
    /\ op = "slice" /\ pc = "done" /\ rtn.buffer.alloc
    /\ start = 1 /\ stop = 0 /\ step = 2
    /\ \E i \in 1..count : ~rtn.views[i].isnull /\ Len(ViewBytes(rtn, i)) = 2

\* ---- C4
\* C4 as stated: get(pos) gives the codepoint at pos for every non-null string
\* with at least pos+1 codepoints and null for every shorter string.
C4_AsStated ==
    (op = "get" /\ pc = "done") =>
        \A i \in 1..count : ~d_strings[i].isnull =>
            IF chars_count(d_strings[i]) >= start + 1
            THEN ~rtn.views[i].isnull /\ ViewBytes(rtn, i) = Utf8(d_strings[i].chars[start + 1])
            ELSE rtn.views[i].isnull

\* C4: get(pos) is slice(pos, pos+1, 1).  When its output buffer is allocated,
\* a non-null string with at least pos+1 codepoints gives the codepoint at pos
\* and a shorter non-null string gives a zero-length string that is not null;
\* when no buffer is allocated (no element has a codepoint at pos, or the
\* allocation failed) every element is null.
C4_GetContents ==
    (op = "get" /\ pc = "done") =>
        /\ err = "none"
        /\ rtn.count = count
        /\ rtn.buffer.alloc =>
              \A i \in 1..count :
                  IF d_strings[i].isnull THEN rtn.views[i].isnull
                  ELSE /\ ~rtn.views[i].isnull
                       /\ ViewBytes(rtn, i) =
                             IF chars_count(d_strings[i]) >= start + 1
                             THEN Utf8(d_strings[i].chars[start + 1])
                             ELSE <<>>
        /\ ~rtn.buffer.alloc => AllNull(rtn)
        /\ (\A i \in 1..count : d_strings[i].isnull \/ chars_count(d_strings[i]) < start + 1)
              => ~rtn.buffer.alloc

C4_Witness ==
    /\ op = "get" /\ pc = "done" /\ rtn.buffer.alloc
    /\ \E i, j \in 1..count :
          /\ ~d_strings[i].isnull /\ chars_count(d_strings[i]) < start + 1
          /\ ~rtn.views[i].isnull /\ rtn.views[i].bytes = 0
          /\ ~rtn.views[j].isnull /\ rtn.views[j].bytes = 2

\* ---- C5
\* C5 as stated: extract on a pattern with g groups appends exactly g arrays
\* of the input's element count, an unmatched element null in every column;
\* ["abc123", "xyz"] with (\d+) gives the single column ["123", null].
C5_AsStated ==
    (op = "extract" /\ pc = "done" /\ ~pattern.isnull) =>
        /\ Len(Appended) = group_counts(pattern.id)
        /\ \A k \in 1..Len(Appended) :
              /\ Appended[k].count = count
              /\ \A i \in 1..count :
                    ~Matched(pattern.id, d_strings[i]) => Appended[k].views[i].isnull
        /\ (d_strings = ExampleExtract /\ pattern.id = "(d+)") =>
              /\ ViewBytes(Appended[1], 1) = <<49, 50, 51>>
              /\ Appended[1].views[2].isnull

\* C5: extract on a non-empty input and a pattern with g groups, when its
\* working-memory request does not fail, returns g and appends exactly g
\* arrays of the input's element count; an element the pattern does not match
\* is null in every column; ["abc123", "xyz"] with (\d+) gives the single
\* column ["123", null] when the column's buffer is allocated.  On an empty
\* input or a failed working-memory request nothing is appended.
C5_ExtractColumns ==
    (op = "extract" /\ pc = "done" /\ ~pattern.isnull) =>
        IF count = 0 \/ prog.relists = "failed"
        THEN results = results0
        ELSE /\ err = "none"
             /\ ret = group_counts(pattern.id)
             /\ Len(Appended) = group_counts(pattern.id)
             /\ \A k \in 1..Len(Appended) :
                   /\ Appended[k].count = count
                   /\ Len(Appended[k].views) = count
                   /\ \A i \in 1..count :
                         ~Matched(pattern.id, d_strings[i]) => Appended[k].views[i].isnull
             /\ (d_strings = ExampleExtract /\ pattern.id = "(d+)"
                   /\ Appended[1].buffer.alloc) =>
                   /\ ~Appended[1].views[1].isnull
                   /\ ViewBytes(Appended[1], 1) = <<49, 50, 51>>
                   /\ Appended[1].views[2].isnull

C5_Witness ==
    /\ op = "extract" /\ pc = "done" /\ Len(Appended) = 2
    /\ \E i, j \in 1..count :
          /\ ~Matched(pattern.id, d_strings[i]) /\ ~d_strings[i].isnull
          /\ ~Appended[1].views[j].isnull /\ ~Appended[2].views[j].isnull

\* ---- C6
\* C6 as stated: extract_record appends exactly one array per input element,
\* each of length the group count, all-null for a null or unmatched element.
C6_AsStated ==
    (op = "extract_record" /\ pc = "done" /\ ~pattern.isnull) =>
        /\ Len(Appended) = count
        /\ \A i \in 1..Len(Appended) :
              /\ Appended[i].count = group_counts(pattern.id)
              /\ ~Matched(pattern.id, d_strings[i]) => AllNull(Appended[i])

\* C6: extract_record on a pattern with at least one group, when its
\* working-memory request does not fail, appends exactly one array per input
\* element, in input order, each of length the group count; the array of a null
\* or unmatched element has no populated entry, and a populated entry of the
\* array of element i is the text of that group in element i.  With no group
\* or a failed working-memory request nothing is appended.
C6_RecordRows ==
    (op = "extract_record" /\ pc = "done" /\ ~pattern.isnull) =>
        IF count = 0 \/ prog.relists = "failed" \/ group_counts(pattern.id) = 0
        THEN results = results0
        ELSE /\ err = "none"
             /\ ret = group_counts(pattern.id)
             /\ Len(Appended) = count
             /\ \A i \in 1..count :
                   /\ Appended[i].count = group_counts(pattern.id)
                   /\ Len(Appended[i].views) = group_counts(pattern.id)
                   /\ ~Matched(pattern.id, d_strings[i]) => AllNull(Appended[i])
                   /\ \A c \in 1..group_counts(pattern.id) :
                         ~Appended[i].views[c].isnull =>
                            ViewBytes(Appended[i], c) = GroupText(pattern.id, d_strings[i], c - 1)

C6_Witness ==
    /\ op = "extract_record" /\ pc = "done" /\ Len(Appended) = 2
    /\ group_counts(pattern.id) = 2
    /\ ~d_strings[1].isnull /\ ~Matched(pattern.id, d_strings[1]) /\ AllNull(Appended[1])
    /\ ~Appended[2].views[1].isnull /\ ~Appended[2].views[2].isnull

\* ---- C7
\* C7 as stated: on a zero-length input every operation returns an empty array
\* and never an error, whatever its arguments.
C7_AsStated ==
    (count = 0 /\ pc = "done") =>
        /\ err = "none"
        /\ ret # -1
        /\ op \in SliceFamily => rtn = NewNVStrings(0)

\* C7: on a zero-length input, get, slice_from and slice with stop <= 0 or
\* start <= stop return an empty array, and extract and extract_record with a
\* pattern return 0 and append nothing, all without an error and without a
\* kernel thread; slice with stop > 0 and start > stop raises invalid-argument
\* and a null pattern returns -1.
C7_EmptyInput ==
    (count = 0 /\ pc = "done") =>
        /\ stats.sizerThreads = 0 /\ stats.xformThreads = 0
        /\ (op \in {"get", "slice_from"} \/ (op = "slice" /\ (stop <= 0 \/ start <= stop))) =>
              err = "none" /\ rtn = NewNVStrings(0)
        /\ (op = "slice" /\ stop > 0 /\ start > stop) =>
              err = "invalid_argument" /\ rtn = NoArray
        /\ op \in RegexFamily =>
              /\ err = "none"
              /\ results = results0
              /\ prog = NoProg
              /\ ret = IF pattern.isnull THEN -1 ELSE 0

C7_Witness == count = 0 /\ pc = "done" /\ op = "slice" /\ stop = 1 /\ start = 1 /\ rtn.count = 0

\* ---- C8
\* C8 as stated: a compiled pattern with zero groups makes extract and
\* extract_record return 0, append nothing, launch nothing and destroy the
\* program.
C8_AsStated ==
    (op \in RegexFamily /\ pc = "done" /\ prog.state # "none" /\ prog.groups = 0) =>
        /\ err = "none" /\ ret = 0
        /\ results = results0
        /\ stats.sizerThreads = 0 /\ stats.xformThreads = 0
        /\ prog.state = "destroyed"

\* C8: a compiled pattern with zero groups makes extract and extract_record
\* append nothing, launch no kernel and destroy the program once; the call
\* returns 0, unless its working-memory request failed, which raises
\* invalid-argument.
C8_ZeroGroups ==
    (op \in RegexFamily /\ prog.state # "none" /\ prog.groups = 0) =>
        /\ pc = "done"
        /\ results = results0
        /\ stats.sizerThreads = 0 /\ stats.xformThreads = 0
        /\ stats.tables = 0 /\ stats.arrays = 0
        /\ prog.state = "destroyed" /\ stats.destroys = 1
        /\ IF prog.relists = "failed"
           THEN err = "invalid_argument" /\ ret = -2
           ELSE err = "none" /\ ret = 0

C8_Witness ==
    /\ op \in RegexFamily /\ pc = "done" /\ prog.groups = 0 /\ prog.state = "destroyed"
    /\ ret = 0 /\ count > 0 /\ prog.relists = "ok"

\* ---- C9
\* C9: when the instruction count exceeds the largest fixed class and the
\* dynamic working-memory request fails, extract and extract_record fail before
\* any kernel: the program is destroyed, an error is raised and the caller's
\* list is unchanged.
C9_RelistsFailure ==
    (op \in RegexFamily /\ prog.relists = "failed") =>
        /\ prog.insts > MAX_STACK_INSTS
        /\ pc = "done"
        /\ err = "invalid_argument"
        /\ ret = -2
        /\ prog.state = "destroyed" /\ stats.destroys = 1
        /\ results = results0
        /\ stats.sizerThreads = 0 /\ stats.xformThreads = 0
        /\ stats.tables = 0 /\ stats.arrays = 0 /\ stats.buffers = 0
        /\ sized = {} /\ xformed = {}

C9_Witness ==
    /\ op \in RegexFamily /\ prog.relists = "failed" /\ pc = "done"
    /\ prog.groups > 0 /\ count > 0 /\ Len(results0) = 1

\* ---- C10
\* the appended columns that own a buffer
ColumnsWithBuffer == {k \in 1..Len(Appended) : Appended[k].buffer.alloc}

\* C10: in slice, slice_from and each column of extract, an output array for
\* which createMemoryFor returned null does not fail the operation: the array
\* is returned / appended with the input's element count and all elements
\* null, and no transform thread runs for it.
C10_NoBufferIsAllNull ==
    /\ (op \in SliceFamily /\ rtn # NoArray /\ ~rtn.buffer.alloc) =>
          /\ pc = "done" /\ err = "none"
          /\ rtn.count = count /\ Len(rtn.views) = count
          /\ AllNull(rtn)
          /\ stats.xformThreads = 0
    /\ op = "extract" =>
          /\ \A k \in 1..Len(Appended) : ~Appended[k].buffer.alloc =>
                /\ err = "none"
                /\ Appended[k].count = count /\ Len(Appended[k].views) = count
                /\ AllNull(Appended[k])
          /\ stats.xformThreads =
                IF pc = "transform"
                THEN count * (Cardinality(ColumnsWithBuffer) - 1) + Cardinality(xformed)
                ELSE count * Cardinality(ColumnsWithBuffer)
          /\ (pc = "done" /\ Len(Appended) > 0) => ret = prog.groups /\ Len(Appended) = prog.groups

C10_Witness ==
    /\ op = "extract" /\ pc = "done" /\ Len(Appended) = 2
    /\ ~Appended[1].buffer.alloc /\ Appended[2].buffer.alloc
    /\ \E i \in 1..count : Matched(pattern.id, d_strings[i]) /\ ~Appended[2].views[i].isnull

\* ---- C11
\* C11 as stated: slice_from has the per-element semantics of slice with step
\* 1: element i of the output is the slice of element i from starts[i] (0 when
\* starts is absent) up to stops[i] (the end of the string when stops is absent
\* or not positive), a null element stays null, and, as in slice, every
\* element is null when the output got no buffer.
C11_AsStated ==
    (op = "slice_from" /\ pc = "done") =>
        /\ rtn.count = count
        /\ \A i \in 1..count :
              IF d_strings[i].isnull \/ ~rtn.buffer.alloc
              THEN rtn.views[i].isnull
              ELSE /\ ~rtn.views[i].isnull
                   /\ ViewBytes(rtn, i) =
                         Bytes(SliceRef(d_strings[i].chars, SliceFromStart(i - 1),
                                        SliceFromStop(i - 1), 1))

\* ---- C12
\* C12: extract and extract_record only append newly created arrays to the
\* caller's list.  In every step of a call the entries present before the call
\* stay in place unchanged, the list grows by at most one array at its end,
\* an array is appended with no buffer and every element null (its buffer is
\* allocated and filled in later steps), and an array in the list keeps its
\* place, its element count and its buffer whatever happens to later columns
\* or rows; a step of extract touches the last column only.
C12_AppendOnly ==
    [][op' \in RegexFamily =>
        IF pc = "idle" THEN results' = results0'
        ELSE /\ results0' = results0
             /\ Len(results') \in {Len(results), Len(results) + 1}
             /\ SubSeq(results', 1, Len(results0)) = results0
             /\ \A k \in 1..Len(results) :
                   /\ results'[k].count = results[k].count
                   /\ results[k].buffer.alloc =>
                         /\ results'[k].buffer.alloc
                         /\ Len(results'[k].buffer.data) = Len(results[k].buffer.data)
                   /\ (op = "extract" /\ k < Len(results)) => results'[k] = results[k]
             /\ Len(results') = Len(results) + 1 =>
                   /\ ~results'[Len(results')].buffer.alloc
                   /\ AllNull(results'[Len(results')])
                   /\ results'[Len(results')].count =
                         IF op = "extract" THEN count ELSE prog.groups
             /\ \A k \in 1..Len(results) :
                   (~results[k].buffer.alloc /\ results'[k].buffer.alloc) =>
                      k = Len(results) /\ k > Len(results0) /\ AllNull(results[k])
    ]_vars

\* a call given a list with an earlier array has appended two arrays, the
\* first with a filled buffer, the second left without a buffer
C12_Witness ==
    /\ op \in RegexFamily /\ pc = "done" /\ Len(results0) = 1 /\ Len(results) = 3
    /\ results[1] = EarlierArray
    /\ results[2].buffer.alloc /\ ~AllNull(results[2])
    /\ ~results[3].buffer.alloc

\* ---- C13
\* the output array the transform kernel in progress works on, and that array
\* as the host handed it to the kernel
KernelOutput == IF op = "extract" THEN results[Len(results)] ELSE rtn
KernelInput == [NewNVStrings(count) EXCEPT !.buffer = Buffer(SumSeq(d_lengths))]

\* the transform thread idx of the running operation applied to arr
TransformThread(arr, idx) ==
    IF op = "extract"
    THEN extract_fn(arr, d_offsets, d_strings[idx + 1], idx, d_begins, d_ends)
    ELSE IF op = "slice_from"
    THEN slice_from_fn(arr, d_offsets, d_strings[idx + 1], idx)
    ELSE slice_fn(arr, d_offsets, d_strings[idx + 1], idx, start, stop, step)

\* the threads of S run one after the other in index order
RECURSIVE InIndexOrder(_, _)
InIndexOrder(arr, S) ==
    IF S = {} THEN arr
    ELSE LET m == CHOOSE x \in S : \A y \in S : y <= x
         IN TransformThread(InIndexOrder(arr, S \ {m}), m)

\* a transform kernel of slice, slice_from or an extract column is running or
\* has been the last one to run
InTransform ==
    /\ pc \in {"transform", "done"}
    /\ \/ op \in SliceFamily /\ rtn # NoArray /\ rtn.buffer.alloc
       \/ op = "extract" /\ Len(Appended) > 0 /\ results[Len(results)].buffer.alloc

\* C13: whatever the order in which the transform threads of slice, slice_from
\* or an extract column have run, the output array (descriptors and buffer
\* bytes) is the one the same threads give when run one at a time in index
\* order, and element i of the output is what thread i alone makes of input
\* element i: null as long as thread i has not run, its own view and bytes
\* afterwards, at position i.
C13_ScheduleIndependent ==
    InTransform =>
        /\ KernelOutput = InIndexOrder(KernelInput, xformed)
        /\ pc = "done" => xformed = Indexes
        /\ \A i \in Indexes :
              LET alone == TransformThread(KernelInput, i)
              IN IF i \in xformed
                 THEN /\ KernelOutput.views[i + 1] = alone.views[i + 1]
                      /\ ~alone.views[i + 1].isnull =>
                            ViewBytes(KernelOutput, i + 1) = ViewBytes(alone, i + 1)
                 ELSE KernelOutput.views[i + 1].isnull

\* two threads have each stored a different text
C13_Witness ==
    /\ InTransform /\ pc = "done" /\ count = 2
    /\ ~KernelOutput.views[1].isnull /\ ~KernelOutput.views[2].isnull
    /\ KernelOutput.views[1].bytes > 0 /\ KernelOutput.views[2].bytes > 0
    /\ ViewBytes(KernelOutput, 1) # ViewBytes(KernelOutput, 2)

\* ---- C14
\* the slot of element i (1-based) in the output buffer: [lo, hi)
Slot(i) == [lo |-> d_offsets[i], hi |-> d_offsets[i] + d_lengths[i]]

\* C14: in slice, slice_from and each extract column the output buffer is as
\* long as the sum of the size table, the bytes the transform thread of
\* element i has stored (those its view refers to) lie within
\* [offset[i], offset[i] + size[i]), these ranges are pairwise disjoint and
\* inside the buffer, and so is the byte range of every non-null view.
C14_WritesInOwnSlot ==
    InTransform =>
        /\ Len(KernelOutput.buffer.data) = SumSeq(d_lengths)
        /\ Len(d_offsets) = count /\ Len(d_lengths) = count
        /\ \A i \in 1..count :
              /\ 0 <= Slot(i).lo /\ Slot(i).hi <= Len(KernelOutput.buffer.data)
              /\ ~KernelOutput.views[i].isnull =>
                    /\ Slot(i).lo <= KernelOutput.views[i].ptr
                    /\ KernelOutput.views[i].ptr + KernelOutput.views[i].bytes <= Slot(i).hi
        /\ \A i, j \in 1..count :
              i # j => Slot(i).hi <= Slot(j).lo \/ Slot(j).hi <= Slot(i).lo

\* the second element's text sits in its own slot behind the first one's
C14_Witness ==
    /\ InTransform /\ xformed = Indexes /\ count = 2
    /\ ~KernelOutput.views[1].isnull /\ KernelOutput.views[1].bytes = 3
    /\ ~KernelOutput.views[2].isnull /\ KernelOutput.views[2].bytes = 3
    /\ KernelOutput.views[2].ptr = AlignBoundary

\* ---- C15
\* C15: the offset table a call (or an extract column) computes from its size
\* table has the same element count, starts at 0 and has
\* offset[i] = offset[i-1] + size[i-1]; so it is non-decreasing with
\* offset[i+1] - offset[i] >= size[i]; and every entry of a size table is a
\* multiple of the alignment boundary.
C15_OffsetsFromSizes ==
    /\ \A i \in 1..Len(d_lengths) : d_lengths[i] >= 0 /\ d_lengths[i] % AlignBoundary = 0
    /\ InTransform =>
          /\ Len(d_offsets) = Len(d_lengths)
          /\ d_offsets[1] = 0
          /\ \A i \in 2..Len(d_offsets) :
                /\ d_offsets[i] = d_offsets[i - 1] + d_lengths[i - 1]
                /\ d_offsets[i] >= d_offsets[i - 1]
                /\ d_offsets[i] - d_offsets[i - 1] >= d_lengths[i - 1]

\* the transform kernel is about to start on two sized elements
C15_Witness ==
    /\ InTransform /\ pc = "transform" /\ xformed = {}
    /\ d_lengths = <<AlignBoundary, AlignBoundary>>
    /\ d_offsets = <<0, AlignBoundary>>

\* ---- C16
\* C16: the phases of a call (of a column in extract) come in the order size,
\* synchronization, allocate, transform.  A step of a transform thread, and a
\* step that allocates an output buffer, is taken only when every sizer thread
\* of the call (column) has committed its size; a sizer thread runs only in the
\* size phase, before the buffer of its call (column) exists; and the size
\* table is written in the size phase only.
C16_PhaseOrder ==
    [][/\ stats'.xformThreads > stats.xformThreads =>
             /\ pc = "transform" /\ sized = Indexes
             /\ op # "extract_record" => KernelOutput.buffer.alloc
       /\ stats'.buffers > stats.buffers =>
             /\ sized = Indexes /\ pc \in {"size", "column", "row"}
             /\ stats.xformThreads = stats'.xformThreads
       /\ stats'.sizerThreads > stats.sizerThreads =>
             /\ pc = "size" /\ pc' = "size"
             /\ op \in SliceFamily => rtn = NoArray
             /\ op = "extract" => Len(Appended) = col
             /\ op = "extract_record" => stats.buffers = 0 /\ stats.xformThreads = 0
       /\ (pc # "idle" /\ d_lengths' # d_lengths) => pc = "size" /\ pc' = "size"
    ]_vars

\* the transform kernel of the second extract column is running, after both
\* sizer threads of that column
C16_Witness ==
    /\ op = "extract" /\ pc = "transform" /\ col = 1 /\ count = 2
    /\ sized = Indexes /\ Cardinality(xformed) = 1
    /\ stats.sizerThreads = 4 /\ stats.xformThreads = 3

\* ---- C17
\* find and extract both report a match of group c in element d
GroupMatch(id, d, c) ==
    LET f == find(id, d)
    IN f.result > 0 /\ extract(id, d, f.begin, f.end, c).result > 0

\* C17 as stated: in extract, once the sizer kernel of column col has finished,
\* an element for which find or extract reports no match of group col has the
\* size 0 in the size table the column's buffer is allocated and laid out
\* from, and is null in column col.
C17_AsStated ==
    (op = "extract" /\ pc \in {"column", "transform"}) =>
        \A i \in 1..count :
            (~d_strings[i].isnull /\ ~GroupMatch(prog.id, d_strings[i], col)) =>
                /\ d_lengths[i] = 0
                /\ results[Len(results)].views[i].isnull

\* ---- C18
\* the call took one of its exits ahead of the size table
EarlyExit ==
    \/ op = "none"
    \/ err # "none"
    \/ op \in RegexFamily /\ (prog.state = "none" \/ prog.groups = 0)

\* C18 as stated: a finished call of any of the operations has allocated
\* exactly one size table, exactly one offset table and exactly one output
\* buffer.
C18_AsStated ==
    (pc = "done" /\ op # "none") =>
        /\ stats.sizeTables = 1
        /\ stats.offsetTables = 1
        /\ stats.buffers = 1

\* C18: a call that gets past its early exits allocates exactly one size
\* table, whatever the number of elements and groups.  slice and slice_from
\* allocate one offset table and one output buffer when createMemoryFor gives
\* a buffer and neither otherwise; extract allocates one offset table and one
\* output buffer for each column that gets a buffer, at most one pair per
\* capture group; extract_record allocates no offset table and one output
\* buffer for each row that gets one, at most one per input element.
C18_Allocations ==
    /\ stats.sizeTables = IF EarlyExit THEN 0 ELSE 1
    /\ op \in SliceFamily =>
          /\ stats.offsetTables = stats.buffers
          /\ stats.buffers = IF rtn # NoArray /\ rtn.buffer.alloc THEN 1 ELSE 0
    /\ op = "extract" =>
          /\ stats.offsetTables = stats.buffers
          /\ stats.buffers = Cardinality(ColumnsWithBuffer)
          /\ stats.buffers <= prog.groups
    /\ op = "extract_record" =>
          /\ stats.offsetTables = 0
          /\ stats.buffers = Cardinality(ColumnsWithBuffer)
          /\ stats.buffers <= count

\* an extract call has allocated two output buffers and two offset tables, an
\* extract_record call two output buffers and no offset table
C18_Witness ==
    /\ pc = "done" /\ stats.sizeTables = 1 /\ stats.buffers = 2
    /\ \/ op = "extract" /\ stats.offsetTables = 2
       \/ op = "extract_record" /\ stats.offsetTables = 0 /\ prog.groups = 1

\* ---- C19
\* the rows (by element, 1-based) whose buffer allocation failed: the row was
\* handed to the kernel and its buffer pointer is null
RowsWithoutBuffer == {i \in 1..Len(d_rows) : d_rows[i] # 0 /\ d_buffers[i] = 0}

\* C19 as stated: in extract_record a row whose buffer allocation failed is
\* dealt with ahead of the transform kernel: the row stays all null and no
\* transform thread stores through the row's null buffer pointer.
C19_AsStated ==
    (op = "extract_record" /\ pc \in {"transform", "done"}) =>
        /\ \A i \in RowsWithoutBuffer : AllNull(results[d_rows[i]])
        /\ ~fault

\* ---- C20
\* C20: in extract and extract_record the compiled program belongs to the
\* call.  It is destroyed at most once; a call that has compiled it ends, on
\* every exit (zero groups, failed working-memory request, normal completion),
\* with the program destroyed exactly once; a destroyed program stays
\* destroyed; and every sizer or transform thread runs while the program is
\* live.
C20_ProgramDestroyedOnce ==
    [][op' \in RegexFamily =>
          /\ stats'.destroys = IF prog'.state = "destroyed" THEN 1 ELSE 0
          /\ prog.state = "destroyed" => prog' = prog /\ pc = "done"
          /\ (pc' = "done" /\ prog'.state # "none") => prog'.state = "destroyed"
          /\ pc' # "done" => prog'.state = "live"
          /\ (stats'.sizerThreads > stats.sizerThreads
                \/ stats'.xformThreads > stats.xformThreads) =>
                prog.state = "live" /\ prog'.state = "live"
    ]_vars

\* a call has run its kernels to the end and destroyed the program
C20_Witness ==
    /\ op \in RegexFamily /\ pc = "done" /\ ret = 2
    /\ prog.state = "destroyed" /\ stats.destroys = 1
    /\ stats.sizerThreads > 0 /\ stats.xformThreads > 0

\* ---- C21
\* the size the sizer has recorded for group c (0-based) of element i (1-based)
RecordSize(i, c) == d_lengths[(i - 1) * prog.groups + c + 1]

\* C21 as stated: in extract_record, for every matched element whose
\* transform thread has run, the thread has stored a view for exactly the
\* groups the sizer has sized (those find and extract report a match for), the
\* size recorded for a group is at least the bytes stored for it, every store
\* lies within the row's buffer of sum(sizes of the row) bytes, the stores of
\* different groups of a row do not overlap, and so no thread has stored
\* outside a row's buffer.
C21_AsStated ==
    (op = "extract_record" /\ pc \in {"transform", "done"}) =>
        /\ ~fault
        /\ \A i \in 1..count :
              (Matched(prog.id, d_strings[i]) /\ (i - 1) \in xformed /\ d_rows[i] # 0) =>
                 LET r == results[d_rows[i]]
                     G == 0..(prog.groups - 1)
                 IN /\ Len(r.buffer.data) = SumSeq(RowSizes(d_lengths, i - 1, prog.groups))
                    /\ \A c \in G :
                          /\ ~r.views[c + 1].isnull <=> GroupMatch(prog.id, d_strings[i], c)
                          /\ ~GroupMatch(prog.id, d_strings[i], c) => RecordSize(i, c) = 0
                          /\ ~r.views[c + 1].isnull =>
                                /\ r.views[c + 1].bytes <= RecordSize(i, c)
                                /\ r.views[c + 1].ptr + r.views[c + 1].bytes
                                      <= Len(r.buffer.data)
                    /\ \A c1, c2 \in G :
                          (c1 < c2 /\ ~r.views[c1 + 1].isnull /\ ~r.views[c2 + 1].isnull) =>
                             r.views[c1 + 1].ptr + RecordSize(i, c1) <= r.views[c2 + 1].ptr

\* ---- C22
\* the len the sizer and the transform thread of element idx (0-based) compute
ThreadLen(idx) ==
    IF op = "slice_from"
    THEN SliceLen(d_strings[idx + 1], SliceFromStart(idx), SliceFromStop(idx))
    ELSE SliceLen(d_strings[idx + 1], start, stop)

\* C22 as stated: in slice and slice_from, in a call that has passed the
\* argument check, the len a sizer or transform thread has computed for a
\* non-null element is not negative, and its conversion to unsigned is len
\* itself.
C22_AsStated ==
    (op \in {"slice", "slice_from"} /\ err = "none") =>
        \A idx \in sized \cup xformed :
            ~d_strings[idx + 1].isnull =>
                /\ ThreadLen(idx) >= 0
                /\ ToUnsigned(ThreadLen(idx)) = ThreadLen(idx)

\* ---- C23
\* the span extract reports for group c of element d
GroupSpan(id, d, c) ==
    LET f == find(id, d)
    IN extract(id, d, f.begin, f.end, c)

\* C23 as stated: in extract, once the transform kernel of a column with a
\* buffer has finished, element i is non-null in the column exactly when find
\* and extract both report a match of the column's group for it; a group that
\* matched the empty span gives a non-null string of zero bytes.
C23_AsStated ==
    (op = "extract" /\ InTransform /\ xformed = Indexes) =>
        \A i \in 1..count :
            LET d == d_strings[i]
                v == KernelOutput.views[i]
                hit == ~d.isnull /\ GroupMatch(prog.id, d, col)
            IN /\ ~v.isnull <=> hit
               /\ (hit /\ GroupSpan(prog.id, d, col).begin = GroupSpan(prog.id, d, col).end) =>
                     ~v.isnull /\ v.bytes = 0

====
